---- MODULE Spec2Model ----
(***************************************************************************)
(* Model of the EVM word encoder and the JSON-to-ABI transcoder of         *)
(* utils/ethabi.go (package utils), together with the hex helpers of       *)
(* utils/utils.go that the transcoder calls.                               *)
(*                                                                         *)
(* A big.Int is a record [neg, abs]: abs is the magnitude as the           *)
(* big-endian byte sequence without leading zeros that big.Int's Bytes()  *)
(* returns, neg is the sign flag (never set for zero).  All arithmetic on  *)
(* 256-bit quantities is done on these byte sequences, so the words have   *)
(* their real width of 32 bytes.                                           *)
(*                                                                         *)
(* A Go string is a sequence of one-character strings; a []byte is a       *)
(* sequence of numbers in 0..255.                                          *)
(***************************************************************************)
EXTENDS Integers, Sequences, FiniteSets, TLC

VARIABLES
    arch,        \* the build's target: decides uint64(float64) out of range
    pc,          \* "load" before the package's init() has run, "run" after
    maxUint257,  \* package-level variables of ethabi.go:209-219
    MaxUint256,
    MaxInt256,
    MinInt256,
    call,        \* the last call made: [fn, arg]
    ret,         \* what that call returned: [out, err]
    threads      \* the goroutines that call concurrently, each with the
                 \* call it is in, its position and its local variables

vars == <<arch, pc, maxUint257, MaxUint256, MaxInt256, MinInt256, call, ret,
          threads>>

-----------------------------------------------------------------------------
(* Bounds of the model *)

\* the integer inputs are +-(2^k + d), k in 0..MaxExp, d in -MaxDelta..MaxDelta
MaxExp == 257
MaxDelta == 1
\* numeric strings: every string of at most MaxNumStrLen characters of NumChars
MaxNumStrLen == 4
\* byte strings: a repeated character, at most MaxStrLen characters long
MaxStrLen == 65
\* JSON numbers: n/d with |n| <= MaxNum and d in {1, 2}
MaxNum == 6
\* further integer inputs: every v with |v| <= MaxSmallInt
MaxSmallInt == 32
\* the number of goroutines that call concurrently
Goroutines == 2
\* ConcatBytes is called with up to MaxBufs buffers
MaxBufs == 3
\* EVMWordUint64 is called with 2^k and 2^k - 1 for every k <= MaxUintExp
MaxUintExp == 29

-----------------------------------------------------------------------------
(* Program constants *)

EVMWordByteLen == 32

FormatBytes == "bytes"
FormatUint256 == "uint256"
FormatInt256 == "int256"
FormatBool == "bool"

-----------------------------------------------------------------------------
(* math/big: natural numbers as big-endian byte sequences *)

Byte == 0..255

Max(a, b) == IF a >= b THEN a ELSE b

Zeros(n) == [i \in 1..n |-> 0]

\* the bytes without the leading zeros
natNorm(bs) ==
    IF \A i \in 1..Len(bs) : bs[i] = 0 THEN <<>>
    ELSE LET first == CHOOSE i \in 1..Len(bs) :
                          bs[i] # 0 /\ \A j \in 1..(i - 1) : bs[j] = 0
         IN  SubSeq(bs, first, Len(bs))

LeftPadBytes(bs, l) ==
    IF l <= Len(bs) THEN bs ELSE Zeros(l - Len(bs)) \o bs

\* -1, 0, 1 as a < b, a = b, a > b; a and b normalised
natCmp(a, b) ==
    IF Len(a) < Len(b) THEN -1
    ELSE IF Len(a) > Len(b) THEN 1
    ELSE IF a = b THEN 0
    ELSE LET first == CHOOSE i \in 1..Len(a) :
                          a[i] # b[i] /\ \A j \in 1..(i - 1) : a[j] = b[j]
         IN  IF a[first] < b[first] THEN -1 ELSE 1

\* a + b: the carry into byte i comes from the nearest lower byte that
\* overflows, through bytes that all sum to 255
natAdd(a, b) ==
    LET n == Max(Len(a), Len(b)) + 1
        pa == LeftPadBytes(a, n)
        pb == LeftPadBytes(b, n)
        carry(i) == \E j \in (i + 1)..n :
                        /\ pa[j] + pb[j] >= 256
                        /\ \A k \in (i + 1)..(j - 1) : pa[k] + pb[k] = 255
    IN  natNorm([i \in 1..n |->
                    (pa[i] + pb[i] + (IF carry(i) THEN 1 ELSE 0)) % 256])

\* a - b for a >= b: the borrow from byte i comes from the nearest lower
\* byte that is too small, through bytes that are equal
natSub(a, b) ==
    LET n == Len(a)
        pb == LeftPadBytes(b, n)
        borrow(i) == \E j \in (i + 1)..n :
                         /\ a[j] < pb[j]
                         /\ \A k \in (i + 1)..(j - 1) : a[k] = pb[k]
    IN  natNorm([i \in 1..n |->
                    (a[i] - pb[i] - (IF borrow(i) THEN 1 ELSE 0)) % 256])

RECURSIVE natFromInt(_)
natFromInt(n) ==
    IF n = 0 THEN <<>> ELSE Append(natFromInt(n \div 256), n % 256)

\* a * m + d for m <= 256 and a small d: the low bytes of the byte products,
\* plus their high bytes one place up, plus d
natMulAddWW(a, m, d) ==
    LET low == [i \in 1..Len(a) |-> (a[i] * m) % 256]
        high == [i \in 1..Len(a) |-> (a[i] * m) \div 256]
    IN  natAdd(natAdd(natNorm(low), natNorm(high \o <<0>>)), natFromInt(d))

\* 2^k, the bit k alone
natBit(k) == <<2 ^ (k % 8)>> \o Zeros(k \div 8)

RECURSIVE natDivRec(_, _, _, _)
natDivRec(a, d, i, r) ==
    IF i > Len(a) THEN <<>>
    ELSE LET cur == r * 256 + a[i]
         IN  <<cur \div d>> \o natDivRec(a, d, i + 1, cur % d)

RECURSIVE natModRec(_, _, _, _)
natModRec(a, d, i, r) ==
    IF i > Len(a) THEN r
    ELSE natModRec(a, d, i + 1, (r * 256 + a[i]) % d)

\* quotient and remainder of a by a small d > 0
natDivW(a, d) == natNorm(natDivRec(a, d, 1, 0))
natModW(a, d) == natModRec(a, d, 1, 0)

RECURSIVE natBitLenW(_)
natBitLenW(b) == IF b = 0 THEN 0 ELSE 1 + natBitLenW(b \div 2)

-----------------------------------------------------------------------------
(* math/big: integers *)

bigMake(neg, abs) == [neg |-> neg /\ abs # <<>>, abs |-> abs]

\* the zero value &big.Int{} and new(big.Int)
bigZero == [neg |-> FALSE, abs |-> <<>>]

NewInt(n) == IF n < 0 THEN bigMake(TRUE, natFromInt(-n))
             ELSE bigMake(FALSE, natFromInt(n))

Sign(x) == IF x.abs = <<>> THEN 0 ELSE IF x.neg THEN -1 ELSE 1

Bytes(x) == x.abs

BitLen(x) ==
    IF x.abs = <<>> THEN 0
    ELSE 8 * (Len(x.abs) - 1) + natBitLenW(x.abs[1])

Neg(x) == bigMake(~x.neg, x.abs)

Add(x, y) ==
    IF x.neg = y.neg THEN bigMake(x.neg, natAdd(x.abs, y.abs))
    ELSE IF natCmp(x.abs, y.abs) >= 0
         THEN bigMake(x.neg, natSub(x.abs, y.abs))
         ELSE bigMake(~x.neg, natSub(y.abs, x.abs))

Sub(x, y) == Add(x, Neg(y))

\* Euclidean division by a small positive divisor d
Div(x, d) ==
    IF x.neg /\ natModW(x.abs, d) # 0
    THEN bigMake(TRUE, natAdd(natDivW(x.abs, d), <<1>>))
    ELSE bigMake(x.neg, natDivW(x.abs, d))

\* Exp(big.NewInt(2), big.NewInt(y), nil): 2^y
Exp2(y) == bigMake(FALSE, natBit(y))

-----------------------------------------------------------------------------
(* Go strings, fmt and errors *)

\* the byte of each character the inputs are written with
Ord(c) ==
    CASE c = "+" -> 43  [] c = "-" -> 45
      [] c = "0" -> 48  [] c = "1" -> 49  [] c = "2" -> 50  [] c = "5" -> 53
      [] c = "6" -> 54  [] c = "9" -> 57
      [] c = "A" -> 65  [] c = "F" -> 70  [] c = "X" -> 88
      [] c = "a" -> 97  [] c = "b" -> 98  [] c = "f" -> 102 [] c = "g" -> 103
      [] c = "x" -> 120

\* []byte(str)
StringBytes(str) == [i \in 1..Len(str) |-> Ord(str[i])]

\* the string as fmt's %s prints it
RECURSIVE Sprint(_)
Sprint(str) == IF str = <<>> THEN "" ELSE str[1] \o Sprint(Tail(str))

DecimalDigit(d) ==
    CASE d = 0 -> "0" [] d = 1 -> "1" [] d = 2 -> "2" [] d = 3 -> "3"
      [] d = 4 -> "4" [] d = 5 -> "5" [] d = 6 -> "6" [] d = 7 -> "7"
      [] d = 8 -> "8" [] d = 9 -> "9"

RECURSIVE natString(_)
natString(a) ==
    IF a = <<>> THEN ""
    ELSE natString(natDivW(a, 10)) \o DecimalDigit(natModW(a, 10))

\* the big.Int as fmt's %v prints it
String(x) ==
    IF x.abs = <<>> THEN "0"
    ELSE (IF x.neg THEN "-" ELSE "") \o natString(x.abs)

nil == [fmt |-> "nil", arg |-> ""]

Errorf(format, a) == [fmt |-> format, arg |-> a]

\* errors.New
New(text) == [fmt |-> text, arg |-> ""]

-----------------------------------------------------------------------------
(* math/big: SetString *)

\* the value of a character as a digit; 36 and more is no digit of any base
digitVal(c) ==
    LET o == Ord(c)
    IN  IF 48 <= o /\ o <= 57 THEN o - 48
        ELSE IF 97 <= o /\ o <= 122 THEN o - 97 + 10
        ELSE IF 65 <= o /\ o <= 90 THEN o - 65 + 10
        ELSE 36

\* the digits of str from position i on, accumulated onto z; <<ok, value>>
RECURSIVE natScan(_, _, _, _)
natScan(str, base, i, z) ==
    IF i > Len(str) THEN <<TRUE, z>>
    ELSE IF digitVal(str[i]) >= base THEN <<FALSE, <<>>>>
    ELSE natScan(str, base, i + 1, natMulAddWW(z, base, digitVal(str[i])))

\* (z, ok) of z.SetString(str, base) for an explicit base: an optional sign,
\* then at least one digit of the base, nothing before and nothing after
SetString(str, base) ==
    LET signed == str # <<>> /\ str[1] \in {"+", "-"}
        neg == str # <<>> /\ str[1] = "-"
        first == IF signed THEN 2 ELSE 1
        scan == natScan(str, base, first, <<>>)
    IN  IF first > Len(str) \/ ~scan[1]
        THEN [ok |-> FALSE, z |-> bigZero]
        ELSE [ok |-> TRUE, z |-> bigMake(neg, scan[2])]

-----------------------------------------------------------------------------
(* utils/utils.go: hex prefix helpers *)

\* mutant: the prefix is recognised in either case
HasHexPrefix_AnyCase(str) ==
    Len(str) >= 2 /\ str[1] = "0" /\ str[2] \in {"x", "X"}

HasHexPrefix(str) == Len(str) >= 2 /\ str[1] = "0" /\ str[2] = "x"

RemoveHexPrefix(str) ==
    IF HasHexPrefix(str) THEN SubSeq(str, 3, Len(str)) ELSE str

\* strings.ToLower, on the characters the inputs are written with
ToLower(str) ==
    [i \in 1..Len(str) |->
        CASE str[i] = "A" -> "a" [] str[i] = "F" -> "f" [] str[i] = "X" -> "x"
          [] OTHER -> str[i]]

\* mutant: the prefix already there is looked for in lower case only
AddHexPrefix_CaseSensitive(str) ==
    IF Len(str) < 2 \/ (Len(str) > 1 /\ SubSeq(str, 1, 2) # <<"0", "x">>)
    THEN <<"0", "x">> \o str
    ELSE str

AddHexPrefix(str) ==
    IF Len(str) < 2
       \/ (Len(str) > 1 /\ ToLower(SubSeq(str, 1, 2)) # <<"0", "x">>)
    THEN <<"0", "x">> \o str
    ELSE str

-----------------------------------------------------------------------------
(* utils/ethabi.go: word encoders *)

ConcatBytes(bufs) ==
    LET RECURSIVE write(_)
        write(i) == IF i = 0 THEN <<>> ELSE write(i - 1) \o bufs[i]
    IN  [out |-> write(Len(bufs)), err |-> nil]

\* binary.BigEndian.PutUint64: the 8 low-order bytes of val
PutUint64(val) ==
    LET b == LeftPadBytes(natFromInt(val), 8)
    IN  SubSeq(b, Len(b) - 7, Len(b))

EVMWordUint64(val) == Zeros(EVMWordByteLen - 8) \o PutUint64(val)

\* mutant: the sign bit is not kept free, BitLen is compared with 256
EVMWordSignedBigInt_FullWidth(val, maxU256) ==
    IF BitLen(val) > 8 * EVMWordByteLen
    THEN [out |-> <<>>,
          err |-> Errorf("Overflow saving signed big.Int to EVM word: %v",
                         String(val))]
    ELSE IF Sign(val) = -1
    THEN LET twosComplement == Add(val, maxU256)
         IN  [out |-> LeftPadBytes(Bytes(Add(twosComplement, NewInt(1))),
                                   EVMWordByteLen),
              err |-> nil]
    ELSE [out |-> LeftPadBytes(Bytes(val), EVMWordByteLen), err |-> nil]

\* maxU256 stands for the package variable MaxUint256 the function reads
EVMWordSignedBigInt(val, maxU256) ==
    IF BitLen(val) > 8 * EVMWordByteLen - 1
    THEN [out |-> <<>>,
          err |-> Errorf("Overflow saving signed big.Int to EVM word: %v",
                         String(val))]
    ELSE IF Sign(val) = -1
    THEN LET twosComplement == Add(val, maxU256)
         IN  [out |-> LeftPadBytes(Bytes(Add(twosComplement, NewInt(1))),
                                   EVMWordByteLen),
              err |-> nil]
    ELSE [out |-> LeftPadBytes(Bytes(val), EVMWordByteLen), err |-> nil]

\* mutant: a value that fills all 32 bytes is taken for an overflow
EVMWordBigInt_OffByOne(val) ==
    IF Sign(val) = -1
    THEN [out |-> <<>>, err |-> New("Uint256 cannot be negative")]
    ELSE IF Len(Bytes(val)) >= EVMWordByteLen
    THEN [out |-> <<>>,
          err |-> Errorf("Overflow saving big.Int to EVM word: %v",
                         String(val))]
    ELSE [out |-> LeftPadBytes(Bytes(val), EVMWordByteLen), err |-> nil]

EVMWordBigInt(val) ==
    IF Sign(val) = -1
    THEN [out |-> <<>>, err |-> New("Uint256 cannot be negative")]
    ELSE IF Len(Bytes(val)) > EVMWordByteLen
    THEN [out |-> <<>>,
          err |-> Errorf("Overflow saving big.Int to EVM word: %v",
                         String(val))]
    ELSE [out |-> LeftPadBytes(Bytes(val), EVMWordByteLen), err |-> nil]

-----------------------------------------------------------------------------
(* utils/utils.go: the second copy of the word encoders and of the range   *)
(* constants, translated from its own text                                 *)

utils_ConcatBytes(bufs) ==
    LET RECURSIVE write(_)
        write(i) == IF i = 0 THEN <<>> ELSE write(i - 1) \o bufs[i]
    IN  [out |-> write(Len(bufs)), err |-> nil]

utils_EVMWordUint64(val) ==
    LET word == Zeros(EVMWordByteLen)
    IN  SubSeq(word, 1, EVMWordByteLen - 8) \o PutUint64(val)

\* utils.go:431-436: the values init() gives the four package variables
utils_init ==
    LET two256 == Exp2(256)
        max == Sub(two256, NewInt(1))
        half == Div(max, 2)
    IN  [maxUint257 |-> two256, MaxUint256 |-> max,
         MaxInt256 |-> half, MinInt256 |-> Neg(half)]

\* mutant: the one that completes the two's complement is not added
utils_EVMWordSignedBigInt_OnesComplement(val) ==
    LET bytes == Bytes(val)
    IN  IF BitLen(val) > 8 * EVMWordByteLen - 1
        THEN [out |-> <<>>,
              err |-> Errorf("Overflow saving signed big.Int to EVM word: %v",
                             String(val))]
        ELSE IF Sign(val) = -1
        THEN LET twosComplement == Add(val, utils_init.MaxUint256)
             IN  [out |-> LeftPadBytes(Bytes(twosComplement), EVMWordByteLen),
                  err |-> nil]
        ELSE [out |-> LeftPadBytes(bytes, EVMWordByteLen), err |-> nil]

utils_EVMWordSignedBigInt(val) ==
    LET bytes == Bytes(val)
    IN  IF BitLen(val) > 8 * EVMWordByteLen - 1
        THEN [out |-> <<>>,
              err |-> Errorf("Overflow saving signed big.Int to EVM word: %v",
                             String(val))]
        ELSE IF Sign(val) = -1
        THEN LET twosComplement == Add(val, utils_init.MaxUint256)
             IN  [out |-> LeftPadBytes(Bytes(Add(twosComplement, NewInt(1))),
                                       EVMWordByteLen),
                  err |-> nil]
        ELSE [out |-> LeftPadBytes(bytes, EVMWordByteLen), err |-> nil]

utils_EVMWordBigInt(val) ==
    IF Sign(val) = -1
    THEN [out |-> <<>>, err |-> New("Uint256 cannot be negative")]
    ELSE LET bytes == Bytes(val)
         IN  IF Len(bytes) > EVMWordByteLen
             THEN [out |-> <<>>,
                   err |-> Errorf("Overflow saving big.Int to EVM word: %v",
                                  String(val))]
             ELSE [out |-> LeftPadBytes(bytes, EVMWordByteLen), err |-> nil]

-----------------------------------------------------------------------------
(* gjson.Result: [Type, Str, Num].  Num, a float64, is the fraction n/d;    *)
(* the inputs stay far below 2^53, where a float64 holds every integer.     *)

TypeNull == "Null"
TypeFalse == "False"
TypeNumber == "Number"
TypeString == "String"
TypeTrue == "True"
TypeJSON == "JSON"

Float(n, d) == [n |-> n, d |-> d]

\* int64(f): the fraction truncated towards zero
Int64OfFloat(f) == IF f.n >= 0 THEN f.n \div f.d ELSE -((-f.n) \div f.d)

\* uint64(f) as a big.Int's magnitude.  Go leaves the conversion of a float
\* that truncates below zero to the implementation: the amd64 code converts
\* through int64 and the bits wrap to 2^64 + t, arm64's FCVTZU saturates to 0.
Uint64OfFloat(f, target) ==
    LET t == Int64OfFloat(f)
    IN  IF t >= 0 THEN natFromInt(t)
        ELSE IF target = "amd64" THEN natSub(natBit(64), natFromInt(-t))
        ELSE <<>>

-----------------------------------------------------------------------------
(* utils/ethabi.go: transcoders *)

\* the cases of EVMTranscodeBytes other than the string
\* mutant: the test of the encoder's error is inverted
transcodeBytesOther_ErrInverted(value, maxU256) ==
    LET prefix == EVMWordUint64(EVMWordByteLen * 2)
    IN  CASE value.Type = TypeFalse ->
               ConcatBytes(<<prefix, EVMWordUint64(EVMWordByteLen),
                             EVMWordUint64(0)>>)
          [] value.Type = TypeTrue ->
               ConcatBytes(<<prefix, EVMWordUint64(EVMWordByteLen),
                             EVMWordUint64(1)>>)
          [] value.Type = TypeNumber ->
               LET word == EVMWordSignedBigInt(NewInt(Int64OfFloat(value.Num)),
                                               maxU256)
               IN  IF word.err = nil
                   THEN [out |-> <<>>, err |-> nil]
                   ELSE ConcatBytes(<<prefix, EVMWordUint64(EVMWordByteLen),
                                      word.out>>)
          [] OTHER ->
               [out |-> <<>>,
                err |-> Errorf("unsupported encoding for value: %s",
                               value.Type)]

transcodeBytesOther(value, maxU256) ==
    LET prefix == EVMWordUint64(EVMWordByteLen * 2)
    IN  CASE value.Type = TypeFalse ->
               ConcatBytes(<<prefix, EVMWordUint64(EVMWordByteLen),
                             EVMWordUint64(0)>>)
          [] value.Type = TypeTrue ->
               ConcatBytes(<<prefix, EVMWordUint64(EVMWordByteLen),
                             EVMWordUint64(1)>>)
          [] value.Type = TypeNumber ->
               LET word == EVMWordSignedBigInt(NewInt(Int64OfFloat(value.Num)),
                                               maxU256)
               IN  IF word.err # nil
                   THEN [out |-> <<>>, err |-> nil]
                   ELSE ConcatBytes(<<prefix, EVMWordUint64(EVMWordByteLen),
                                      word.out>>)
          [] OTHER ->
               [out |-> <<>>,
                err |-> Errorf("unsupported encoding for value: %s",
                               value.Type)]

\* mutant: content that ends on a word boundary gets no padding
EVMTranscodeBytes_PadToBoundary(value, maxU256) ==
    LET prefix == EVMWordUint64(EVMWordByteLen * 2)
    IN  IF value.Type = TypeString
        THEN LET input == StringBytes(value.Str)
                 length == Len(input)
             IN  ConcatBytes(<<prefix,
                               EVMWordUint64(length),
                               input,
                               Zeros((EVMWordByteLen
                                      - (length % EVMWordByteLen))
                                     % EVMWordByteLen)>>)
        ELSE transcodeBytesOther(value, maxU256)

\* mutant: null is encoded like false
EVMTranscodeBytes_NullAsFalse(value, maxU256) ==
    LET prefix == EVMWordUint64(EVMWordByteLen * 2)
    IN  IF value.Type = TypeString
        THEN LET input == StringBytes(value.Str)
                 length == Len(input)
             IN  ConcatBytes(<<prefix,
                               EVMWordUint64(length),
                               input,
                               Zeros(EVMWordByteLen
                                     - (length % EVMWordByteLen))>>)
        ELSE IF value.Type = TypeNull
        THEN ConcatBytes(<<prefix, EVMWordUint64(EVMWordByteLen),
                           EVMWordUint64(0)>>)
        ELSE transcodeBytesOther(value, maxU256)

EVMTranscodeBytes(value, maxU256) ==
    LET prefix == EVMWordUint64(EVMWordByteLen * 2)
    IN  IF value.Type = TypeString
        THEN LET input == StringBytes(value.Str)
                 length == Len(input)
             IN  ConcatBytes(<<prefix,
                               EVMWordUint64(length),
                               input,
                               Zeros(EVMWordByteLen
                                     - (length % EVMWordByteLen))>>)
        ELSE transcodeBytesOther(value, maxU256)

\* mutant: a number is truncated to an integer before it is tested
EVMTranscodeBool_Truncating(value) ==
    CASE value.Type = TypeNumber ->
           [out |-> EVMWordUint64(IF Int64OfFloat(value.Num) # 0
                                  THEN 1 ELSE 0),
            err |-> nil]
      [] value.Type = TypeString ->
           [out |-> EVMWordUint64(IF Len(value.Str) > 0 THEN 1 ELSE 0),
            err |-> nil]
      [] value.Type = TypeTrue ->
           [out |-> EVMWordUint64(1), err |-> nil]
      [] value.Type \in {TypeFalse, TypeNull} ->
           [out |-> EVMWordUint64(0), err |-> nil]
      [] OTHER ->
           [out |-> <<>>,
            err |-> Errorf("unsupported encoding for value: %s", value.Type)]

EVMTranscodeBool(value) ==
    CASE value.Type = TypeNumber ->
           [out |-> EVMWordUint64(IF value.Num.n # 0 THEN 1 ELSE 0),
            err |-> nil]
      [] value.Type = TypeString ->
           [out |-> EVMWordUint64(IF Len(value.Str) > 0 THEN 1 ELSE 0),
            err |-> nil]
      [] value.Type = TypeTrue ->
           [out |-> EVMWordUint64(1), err |-> nil]
      [] value.Type \in {TypeFalse, TypeNull} ->
           [out |-> EVMWordUint64(0), err |-> nil]
      [] OTHER ->
           [out |-> <<>>,
            err |-> Errorf("unsupported encoding for value: %s", value.Type)]

\* the string case shared by EVMTranscodeUint256 and EVMTranscodeInt256
parseString(str) ==
    IF HasHexPrefix(str)
    THEN SetString(RemoveHexPrefix(str), 16)
    ELSE SetString(str, 10)

EVMTranscodeUint256(value, target) ==
    CASE value.Type = TypeString ->
           LET output == parseString(value.Str)
           IN  IF ~output.ok
               THEN [out |-> <<>>,
                     err |-> Errorf("error parsing %s", Sprint(value.Str))]
               ELSE EVMWordBigInt(output.z)
      [] value.Type = TypeNumber ->
           EVMWordBigInt(bigMake(FALSE, Uint64OfFloat(value.Num, target)))
      [] value.Type = TypeNull ->
           EVMWordBigInt(bigZero)
      [] OTHER ->
           [out |-> <<>>,
            err |-> Errorf("unsupported encoding for value: %s", value.Type)]

EVMTranscodeInt256(value, maxU256) ==
    CASE value.Type = TypeString ->
           LET output == parseString(value.Str)
           IN  IF ~output.ok
               THEN [out |-> <<>>,
                     err |-> Errorf("error parsing %s", Sprint(value.Str))]
               ELSE EVMWordSignedBigInt(output.z, maxU256)
      [] value.Type = TypeNumber ->
           EVMWordSignedBigInt(NewInt(Int64OfFloat(value.Num)), maxU256)
      [] value.Type = TypeNull ->
           EVMWordSignedBigInt(bigZero, maxU256)
      [] OTHER ->
           [out |-> <<>>,
            err |-> Errorf("unsupported encoding for value: %s", value.Type)]

\* mutant: the tag "BOOL" is taken for "bool"
EVMTranscodeJSONWithFormat_AnyCase(value, format, target, maxU256) ==
    CASE format = FormatBytes -> EVMTranscodeBytes(value, maxU256)
      [] format = FormatUint256 -> EVMTranscodeUint256(value, target)
      [] format = FormatInt256 -> EVMTranscodeInt256(value, maxU256)
      [] format \in {FormatBool, "BOOL"} -> EVMTranscodeBool(value)
      [] OTHER ->
           [out |-> <<>>, err |-> Errorf("unsupported format: %s", format)]

EVMTranscodeJSONWithFormat(value, format, target, maxU256) ==
    CASE format = FormatBytes -> EVMTranscodeBytes(value, maxU256)
      [] format = FormatUint256 -> EVMTranscodeUint256(value, target)
      [] format = FormatInt256 -> EVMTranscodeInt256(value, maxU256)
      [] format = FormatBool -> EVMTranscodeBool(value)
      [] OTHER ->
           [out |-> <<>>, err |-> Errorf("unsupported format: %s", format)]

-----------------------------------------------------------------------------
(* The inputs of the calls *)

Archs == {"amd64", "arm64"}

IntInputs ==
    { Add(bigMake(s, natBit(k)), NewInt(d)) :
          s \in BOOLEAN, k \in 0..MaxExp, d \in -MaxDelta..MaxDelta }
    \cup { NewInt(i) : i \in -MaxSmallInt..MaxSmallInt }

NumChars == {"0", "1", "a", "x", "X", "-"}

NumStrings == UNION { [1..n -> NumChars] : n \in 0..MaxNumStrLen }

ExampleStrings ==
    { <<"2", "6">>, <<"-", "5">>, <<"+", "5">>, <<"0", "x", "1", "A">>,
      <<"0", "x", "F", "F">>, <<"0", "X", "F", "F">>, <<"0", "x", "f", "g">>,
      <<"0", "x", "-", "1", "a">>, <<"0", "x", "+", "1", "A">>,
      <<"9", "9">>, <<"1", "2", "b">>, <<"a", "b">> }

ByteStrings == { [i \in 1..n |-> "a"] : n \in 0..MaxStrLen }

Strings == NumStrings \cup ExampleStrings \cup ByteStrings

Floats ==
    { Float(n, 1) : n \in -MaxNum..MaxNum }
    \cup { Float(n, 2) : n \in { m \in -MaxNum..MaxNum : m % 2 = 1 } }

JSONValues ==
    { [Type |-> t, Str |-> <<>>, Num |-> Float(0, 1)] :
          t \in {TypeNull, TypeFalse, TypeTrue, TypeJSON} }
    \cup { [Type |-> TypeNumber, Str |-> <<>>, Num |-> f] : f \in Floats }
    \cup { [Type |-> TypeString, Str |-> str, Num |-> Float(0, 1)] :
               str \in Strings }

Uint64Inputs ==
    (0..MaxSmallInt)
    \cup { 2 ^ k : k \in 0..MaxUintExp }
    \cup { 2 ^ k - 1 : k \in 0..MaxUintExp }

Bufs == { <<>>, <<1>>, <<2, 255>>, Zeros(EVMWordByteLen) }

BufLists == UNION { [1..n -> Bufs] : n \in 0..MaxBufs }

Formats ==
    { FormatBytes, FormatUint256, FormatInt256, FormatBool,
      "Bytes", "BOOL", "Uint256", "unknown", "" }

-----------------------------------------------------------------------------
(* The state machine: the package is loaded and init() runs, then a caller *)
(* makes one call after the other and takes each result.                   *)

noCall == [fn |-> "none", arg |-> <<>>, format |-> ""]
noRet == [out |-> <<>>, err |-> nil]

\* a goroutine outside any call
idleThread ==
    [pc |-> "idle", fn |-> "none", arg |-> <<>>, val |-> bigZero,
     twosComplement |-> bigZero, ret |-> noRet]

Init ==
    /\ arch \in Archs
    /\ pc = "load"
    /\ maxUint257 = bigZero
    /\ MaxUint256 = bigZero
    /\ MaxInt256 = bigZero
    /\ MinInt256 = bigZero
    /\ call = noCall
    /\ ret = noRet
    /\ threads = [g \in 1..Goroutines |-> idleThread]

init ==
    /\ pc = "load"
    /\ maxUint257' = Exp2(256)
    /\ MaxUint256' = Sub(maxUint257', NewInt(1))
    /\ MaxInt256' = Div(MaxUint256', 2)
    /\ MinInt256' = Neg(MaxInt256')
    /\ pc' = "idle"
    /\ UNCHANGED <<arch, call, ret, threads>>

Returns(fn, arg, format, result) ==
    /\ call' = [fn |-> fn, arg |-> arg, format |-> format]
    /\ ret' = result
    /\ pc' = "returned"
    /\ UNCHANGED <<arch, maxUint257, MaxUint256, MaxInt256, MinInt256,
                   threads>>

CallEVMWordSignedBigInt ==
    /\ pc = "idle"
    /\ \E val \in IntInputs :
        Returns("EVMWordSignedBigInt", val, "",
                EVMWordSignedBigInt(val, MaxUint256))

CallEVMWordBigInt ==
    /\ pc = "idle"
    /\ \E val \in IntInputs :
        Returns("EVMWordBigInt", val, "", EVMWordBigInt(val))

CallEVMTranscodeBytes ==
    /\ pc = "idle"
    /\ \E value \in JSONValues :
        Returns("EVMTranscodeBytes", value, "",
                EVMTranscodeBytes(value, MaxUint256))

CallEVMTranscodeBool ==
    /\ pc = "idle"
    /\ \E value \in JSONValues :
        Returns("EVMTranscodeBool", value, "", EVMTranscodeBool(value))

CallEVMTranscodeUint256 ==
    /\ pc = "idle"
    /\ \E value \in JSONValues :
        Returns("EVMTranscodeUint256", value, "",
                EVMTranscodeUint256(value, arch))

CallEVMTranscodeInt256 ==
    /\ pc = "idle"
    /\ \E value \in JSONValues :
        Returns("EVMTranscodeInt256", value, "",
                EVMTranscodeInt256(value, MaxUint256))

CallEVMTranscodeJSONWithFormat ==
    /\ pc = "idle"
    /\ \E value \in JSONValues, format \in Formats :
        Returns("EVMTranscodeJSONWithFormat", value, format,
                EVMTranscodeJSONWithFormat(value, format, arch, MaxUint256))

CallHasHexPrefix ==
    /\ pc = "idle"
    /\ \E str \in Strings :
        Returns("HasHexPrefix", str, "",
                [out |-> HasHexPrefix(str), err |-> nil])

CallRemoveHexPrefix ==
    /\ pc = "idle"
    /\ \E str \in Strings :
        Returns("RemoveHexPrefix", str, "",
                [out |-> RemoveHexPrefix(str), err |-> nil])

CallAddHexPrefix ==
    /\ pc = "idle"
    /\ \E str \in Strings :
        Returns("AddHexPrefix", str, "",
                [out |-> AddHexPrefix(str), err |-> nil])

CallEVMWordUint64 ==
    /\ pc = "idle"
    /\ \E val \in Uint64Inputs :
        Returns("EVMWordUint64", val, "",
                [out |-> EVMWordUint64(val), err |-> nil])

CallConcatBytes ==
    /\ pc = "idle"
    /\ \E bufs \in BufLists :
        Returns("ConcatBytes", bufs, "", ConcatBytes(bufs))

\* the caller takes the result and the word is discarded
TakeResult ==
    /\ pc = "returned"
    /\ pc' = "idle"
    /\ call' = noCall
    /\ ret' = noRet
    /\ UNCHANGED <<arch, maxUint257, MaxUint256, MaxInt256, MinInt256,
                   threads>>

Next ==
    \/ init
    \/ CallEVMWordSignedBigInt
    \/ CallEVMWordBigInt
    \/ CallEVMTranscodeBytes
    \/ CallEVMTranscodeBool
    \/ CallEVMTranscodeUint256
    \/ CallEVMTranscodeInt256
    \/ CallEVMTranscodeJSONWithFormat
    \/ CallHasHexPrefix
    \/ CallRemoveHexPrefix
    \/ CallAddHexPrefix
    \/ CallEVMWordUint64
    \/ CallConcatBytes
    \/ TakeResult

Spec == Init /\ [][Next]_vars

-----------------------------------------------------------------------------
(* Concurrent callers: once init() has run, every goroutine makes calls    *)
(* of its own and the steps of the calls interleave.  A step is the code   *)
(* between two accesses to the package variables.                          *)

\* the calls the goroutines choose from
ConcCalls ==
    { [fn |-> "EVMWordSignedBigInt", arg |-> val] :
          val \in { NewInt(-1), NewInt(5), bigMake(FALSE, natBit(255)),
                    Add(bigMake(TRUE, natBit(255)), NewInt(1)) } }
    \cup { [fn |-> "EVMWordBigInt", arg |-> val] :
               val \in { NewInt(-1),
                         Add(bigMake(FALSE, natBit(256)), NewInt(-1)) } }
    \cup { [fn |-> fn, arg |-> value] :
               fn \in {"EVMTranscodeUint256", "EVMTranscodeInt256"},
               value \in
                 { [Type |-> TypeString, Str |-> <<"-", "5">>,
                    Num |-> Float(0, 1)],
                   [Type |-> TypeString, Str |-> <<"0", "X", "F", "F">>,
                    Num |-> Float(0, 1)],
                   [Type |-> TypeNumber, Str |-> <<>>, Num |-> Float(-1, 1)],
                   [Type |-> TypeNull, Str |-> <<>>, Num |-> Float(0, 1)],
                   [Type |-> TypeJSON, Str |-> <<>>, Num |-> Float(0, 1)] } }

\* ethabi.go:189: the sum goes into a new big.Int, MaxUint256 is only read
twosComplementAdd_IntoShared(val, maxU256) ==
    [twosComplement |-> Add(val, maxU256), MaxUint256 |-> Add(val, maxU256)]

twosComplementAdd(val, maxU256) ==
    [twosComplement |-> Add(val, maxU256), MaxUint256 |-> maxU256]

Local(g, t) ==
    /\ threads' = [threads EXCEPT ![g] = t]
    /\ UNCHANGED <<arch, pc, maxUint257, MaxUint256, MaxInt256, MinInt256,
                   call, ret>>

Finish(g, result) ==
    Local(g, [threads[g] EXCEPT !.pc = "done", !.ret = result])

\* go f(arg): the goroutine enters the function
gCall(g) ==
    /\ pc = "idle"
    /\ threads[g].pc = "idle"
    /\ \E c \in ConcCalls :
           Local(g, [idleThread EXCEPT
                       !.fn = c.fn,
                       !.arg = c.arg,
                       !.val = IF c.fn \in {"EVMWordSignedBigInt",
                                            "EVMWordBigInt"}
                               THEN c.arg ELSE bigZero,
                       !.pc = CASE c.fn = "EVMWordSignedBigInt" -> "signed"
                                [] c.fn = "EVMWordBigInt" -> "unsigned"
                                [] OTHER -> "transcode"])

\* ethabi.go:103-125 and 131-153: the switch of the two integer transcoders
gTranscode(g) ==
    /\ threads[g].pc = "transcode"
    /\ LET t == threads[g]
           value == t.arg
           encoder == IF t.fn = "EVMTranscodeUint256"
                      THEN "unsigned" ELSE "signed"
           output == parseString(value.Str)
       IN  CASE value.Type = TypeString ->
                  IF ~output.ok
                  THEN Finish(g, [out |-> <<>>,
                                  err |-> Errorf("error parsing %s",
                                                 Sprint(value.Str))])
                  ELSE Local(g, [t EXCEPT !.pc = encoder, !.val = output.z])
             [] value.Type = TypeNumber ->
                  Local(g, [t EXCEPT
                              !.pc = encoder,
                              !.val = IF t.fn = "EVMTranscodeUint256"
                                      THEN bigMake(FALSE,
                                                   Uint64OfFloat(value.Num,
                                                                 arch))
                                      ELSE NewInt(Int64OfFloat(value.Num))])
             [] value.Type = TypeNull ->
                  Local(g, [t EXCEPT !.pc = encoder, !.val = bigZero])
             [] OTHER ->
                  Finish(g, [out |-> <<>>,
                             err |-> Errorf("unsupported encoding for value: %s",
                                            value.Type)])

\* ethabi.go:184-188 and 192: EVMWordSignedBigInt up to the negative case
gSignedCheck(g) ==
    /\ threads[g].pc = "signed"
    /\ LET val == threads[g].val
       IN  IF BitLen(val) > 8 * EVMWordByteLen - 1
           THEN Finish(g, [out |-> <<>>,
                           err |-> Errorf("Overflow saving signed big.Int to EVM word: %v",
                                          String(val))])
           ELSE IF Sign(val) = -1
           THEN Local(g, [threads[g] EXCEPT !.pc = "add"])
           ELSE Finish(g, [out |-> LeftPadBytes(Bytes(val), EVMWordByteLen),
                           err |-> nil])

\* ethabi.go:189: twosComplement := new(big.Int).Add(val, MaxUint256)
gSignedAdd(g) ==
    /\ threads[g].pc = "add"
    /\ LET sum == twosComplementAdd(threads[g].val, MaxUint256)
       IN  /\ threads' = [threads EXCEPT
                             ![g].pc = "add1",
                             ![g].twosComplement = sum.twosComplement]
           /\ MaxUint256' = sum.MaxUint256
    /\ UNCHANGED <<arch, pc, maxUint257, MaxInt256, MinInt256, call, ret>>

\* ethabi.go:190-192: add one, pad and return
gSignedAdd1(g) ==
    /\ threads[g].pc = "add1"
    /\ Finish(g, [out |-> LeftPadBytes(
                             Bytes(Add(threads[g].twosComplement, NewInt(1))),
                             EVMWordByteLen),
                  err |-> nil])

\* ethabi.go:198-205: EVMWordBigInt reads no package variable
gUnsigned(g) ==
    /\ threads[g].pc = "unsigned"
    /\ Finish(g, EVMWordBigInt(threads[g].val))

\* the goroutine's caller takes the result
gReturn(g) ==
    /\ threads[g].pc = "done"
    /\ Local(g, idleThread)

NextConc ==
    \/ init
    \/ \E g \in 1..Goroutines : gCall(g)
    \/ \E g \in 1..Goroutines : gTranscode(g)
    \/ \E g \in 1..Goroutines : gSignedCheck(g)
    \/ \E g \in 1..Goroutines : gSignedAdd(g)
    \/ \E g \in 1..Goroutines : gSignedAdd1(g)
    \/ \E g \in 1..Goroutines : gUnsigned(g)
    \/ \E g \in 1..Goroutines : gReturn(g)

SpecConc == Init /\ [][NextConc]_vars

-----------------------------------------------------------------------------
(* Vocabulary of the properties, defined without the encoders *)

Returned(fn) == pc = "returned" /\ call.fn = fn

\* -1, 0, 1 as x < y, x = y, x > y
bigCmp(x, y) ==
    IF x.neg # y.neg THEN (IF x.neg THEN -1 ELSE 1)
    ELSE IF x.neg THEN natCmp(y.abs, x.abs)
    ELSE natCmp(x.abs, y.abs)

Two255 == bigMake(FALSE, natBit(255))
Two256 == bigMake(FALSE, natBit(256))
SpecMaxUint256 == Sub(Two256, NewInt(1))
SpecMaxInt256 == Sub(Two255, NewInt(1))
SpecMinInt256 == Neg(Two255)

\* the unsigned and the two's-complement reading of a big-endian word
DecodeUnsigned(word) == bigMake(FALSE, natNorm(word))

DecodeSigned(word) ==
    IF word # <<>> /\ word[1] >= 128
    THEN Sub(DecodeUnsigned(word), bigMake(FALSE, natBit(8 * Len(word))))
    ELSE DecodeUnsigned(word)

\* the 32-byte word of a number below 2^16
WordOf(n) ==
    [i \in 1..32 |-> IF i = 32 THEN n % 256
                     ELSE IF i = 31 THEN n \div 256
                     ELSE 0]

IsWord(out) == Len(out) = 32 /\ \A i \in 1..32 : out[i] \in Byte

IsSignError(r) ==
    r.err.fmt = "Uint256 cannot be negative" /\ r.out = <<>>

IsOverflowError(r) ==
    /\ r.err.fmt \in {"Overflow saving big.Int to EVM word: %v",
                      "Overflow saving signed big.Int to EVM word: %v"}
    /\ r.out = <<>>

IsParseError(r) == r.err.fmt = "error parsing %s" /\ r.out = <<>>

IsFormatError(r) ==
    /\ r.err.fmt \in {"unsupported encoding for value: %s",
                      "unsupported format: %s"}
    /\ r.out = <<>>

-----------------------------------------------------------------------------
(* C1 - C5: the word encoders and the range constants *)

\* C1: for every v with -2^255 <= v <= 2^255 - 1, encodeSignedWord(v)
\* succeeds and its 32-byte result, read as a two's-complement integer, is v.
C1_SignedRoundTrip ==
    (/\ Returned("EVMWordSignedBigInt")
     /\ bigCmp(SpecMinInt256, call.arg) <= 0
     /\ bigCmp(call.arg, SpecMaxInt256) <= 0)
    => /\ ret.err = nil
       /\ IsWord(ret.out)
       /\ DecodeSigned(ret.out) = call.arg

\* C2: after initialization MaxUint256 = 2^256 - 1, MaxInt256 = 2^255 - 1
\* and MinInt256 = -2^255.
C2_RangeConstants ==
    pc # "load"
    => /\ MaxUint256 = SpecMaxUint256
       /\ MaxInt256 = SpecMaxInt256
       /\ MinInt256 = SpecMinInt256

\* a JSON number that is a negative integer, or a decimal string of one
DenotesNegative(value) ==
    \/ value.Type = TypeNumber /\ value.Num.d = 1 /\ value.Num.n < 0
    \/ /\ value.Type = TypeString
       /\ Len(value.Str) >= 2
       /\ value.Str[1] = "-"
       /\ \A i \in 2..Len(value.Str) : Ord(value.Str[i]) \in 48..57
       /\ \E i \in 2..Len(value.Str) : value.Str[i] # "0"

\* C3: transcodeUint256 of a value that denotes a negative integer (the
\* number -1, the string "-1") returns a SignError and no word.
C3_NegativeIsSignError ==
    (Returned("EVMTranscodeUint256") /\ DenotesNegative(call.arg))
    => IsSignError(ret)

C5_SignedOverflow ==
    Returned("EVMWordSignedBigInt")
    => LET v == call.arg
       IN  (\/ v = Add(SpecMaxInt256, NewInt(1))
            \/ v = Sub(SpecMinInt256, NewInt(1))
            \/ v = Add(MaxInt256, NewInt(1))
            \/ v = Sub(MinInt256, NewInt(1))
            \/ natCmp(v.abs, natBit(255)) >= 0)
           => /\ IsOverflowError(ret)
              /\ ret.err.fmt = "Overflow saving signed big.Int to EVM word: %v"

C5_Witness ==
    /\ Returned("EVMWordSignedBigInt")
    /\ call.arg = Two255
    /\ IsOverflowError(ret)

-----------------------------------------------------------------------------
(* C6 - C10: the transcoders *)

\* C6: for every string s of byte length L, transcodeBytes(s) is the word 64,
\* the word L, the L bytes of s and 32 - (L mod 32) zero bytes: a multiple of
\* 32 bytes, 96 for "ab", and a whole extra zero word when 32 divides L.
C6_BytesLayout ==
    (Returned("EVMTranscodeBytes") /\ call.arg.Type = TypeString)
    => LET str == call.arg.Str
           L == Len(str)
           pad == 32 - (L % 32)
           out == ret.out
       IN  /\ ret.err = nil
           /\ Len(out) = 64 + L + pad
           /\ SubSeq(out, 1, 32) = WordOf(64)
           /\ SubSeq(out, 33, 64) = WordOf(L)
           /\ \A i \in 1..L : out[64 + i] = Ord(str[i])
           /\ \A i \in 1..pad : out[64 + L + i] = 0
           /\ Len(out) % 32 = 0
           /\ str = <<"a", "b">> => Len(out) = 96
           /\ L % 32 = 0
              => /\ Len(out) = 64 + L + 32
                 /\ SubSeq(out, 64 + L + 1, Len(out)) = WordOf(0)

C6_Witness ==
    /\ Returned("EVMTranscodeBytes")
    /\ call.arg.Type = TypeString
    /\ Len(call.arg.Str) = 32
    /\ ret.err = nil
    /\ Len(ret.out) = 128

\* the digits of the bases 10 and 16 and their values
SpecDigit ==
    [c \in {"0", "1", "2", "5", "6", "9", "a", "b", "f", "A", "F"} |->
        CASE c = "0" -> 0 [] c = "1" -> 1 [] c = "2" -> 2 [] c = "5" -> 5
          [] c = "6" -> 6 [] c = "9" -> 9
          [] c \in {"a", "A"} -> 10 [] c = "b" -> 11 [] c \in {"f", "F"} -> 15]

SpecSigned(text) == text # <<>> /\ text[1] \in {"+", "-"}

SpecDigits(text) == IF SpecSigned(text) THEN Tail(text) ELSE text

\* an optional sign, then one digit of the base or more
SpecWellFormed(text, base) ==
    LET digits == SpecDigits(text)
    IN  /\ digits # <<>>
        /\ \A i \in 1..Len(digits) :
               digits[i] \in DOMAIN SpecDigit /\ SpecDigit[digits[i]] < base

RECURSIVE SpecMagnitude(_, _)
SpecMagnitude(digits, base) ==
    IF digits = <<>> THEN 0
    ELSE SpecMagnitude(SubSeq(digits, 1, Len(digits) - 1), base) * base
         + SpecDigit[digits[Len(digits)]]

SpecNumber(text, base) ==
    IF text[1] = "-" THEN -SpecMagnitude(SpecDigits(text), base)
    ELSE SpecMagnitude(SpecDigits(text), base)

\* C7: transcodeUint256 and transcodeInt256 parse the text after a lowercase
\* "0x" in base 16, whatever the case of the digits, and any other string in
\* base 10; "0x1a", "0x1A" and "26" give the word of 26, transcodeInt256("-5")
\* is encodeSignedWord(-5) and ends in 0xfb, and a string that does not parse
\* so (one that starts with "0X") gives a ParseError.
C7_StringParsing ==
    (/\ pc = "returned"
     /\ call.fn \in {"EVMTranscodeUint256", "EVMTranscodeInt256"}
     /\ call.arg.Type = TypeString)
    => LET str == call.arg.Str
           hex == Len(str) >= 2 /\ str[1] = "0" /\ str[2] = "x"
           text == IF hex THEN SubSeq(str, 3, Len(str)) ELSE str
           base == IF hex THEN 16 ELSE 10
           encoded(n) == IF call.fn = "EVMTranscodeUint256"
                         THEN EVMWordBigInt(NewInt(n))
                         ELSE EVMWordSignedBigInt(NewInt(n), MaxUint256)
       IN  /\ IF SpecWellFormed(text, base)
              THEN ret = encoded(SpecNumber(text, base))
              ELSE IsParseError(ret)
           /\ str \in {<<"0", "x", "1", "a">>, <<"0", "x", "1", "A">>,
                       <<"2", "6">>}
              => ret.err = nil /\ ret.out = WordOf(26)
           /\ (call.fn = "EVMTranscodeInt256" /\ str = <<"-", "5">>)
              => /\ ret.err = nil
                 /\ ret.out = [i \in 1..32 |-> IF i = 32 THEN 251 ELSE 255]
           /\ (Len(str) >= 2 /\ str[1] = "0" /\ str[2] = "X")
              => IsParseError(ret)

C7_Witness ==
    /\ Returned("EVMTranscodeUint256")
    /\ call.arg.Type = TypeString
    /\ call.arg.Str = <<"0", "x", "1", "A">>
    /\ ret.err = nil
    /\ ret.out = WordOf(26)

\* C8: transcodeBool returns word(1) exactly for a nonzero number, a
\* non-empty string and true, word(0) for the number 0, the empty string,
\* false and null, and never any other word.
C8_Bool ==
    Returned("EVMTranscodeBool")
    => LET value == call.arg
           truthy == \/ value.Type = TypeNumber /\ value.Num.n # 0
                     \/ value.Type = TypeString /\ value.Str # <<>>
                     \/ value.Type = TypeTrue
           falsy == \/ value.Type = TypeNumber /\ value.Num.n = 0
                    \/ value.Type = TypeString /\ value.Str = <<>>
                    \/ value.Type \in {TypeFalse, TypeNull}
       IN  /\ truthy <=> (ret.err = nil /\ ret.out = WordOf(1))
           /\ falsy => (ret.err = nil /\ ret.out = WordOf(0))
           /\ \/ ret.err = nil /\ ret.out \in {WordOf(0), WordOf(1)}
              \/ ret.err # nil /\ ret.out = <<>>

C8_Witness ==
    /\ Returned("EVMTranscodeBool")
    /\ call.arg.Type = TypeNumber
    /\ call.arg.Num = Float(1, 2)
    /\ ret.err = nil
    /\ ret.out = WordOf(1)

\* C9: transcodeWithFormat(v, tag) returns what transcodeBytes,
\* transcodeUint256, transcodeInt256 or transcodeBool returns for v when tag is
\* exactly "bytes", "uint256", "int256" or "bool", and the FormatError
\* "unsupported format: <tag>" for every other tag, also one that differs
\* only in the case of its letters.
C9_FormatDispatch ==
    Returned("EVMTranscodeJSONWithFormat")
    => LET value == call.arg
           tag == call.format
       IN  /\ tag = "bytes" => ret = EVMTranscodeBytes(value, MaxUint256)
           /\ tag = "uint256" => ret = EVMTranscodeUint256(value, arch)
           /\ tag = "int256" => ret = EVMTranscodeInt256(value, MaxUint256)
           /\ tag = "bool" => ret = EVMTranscodeBool(value)
           /\ tag \notin {"bytes", "uint256", "int256", "bool"}
              => /\ ret.out = <<>>
                 /\ ret.err = [fmt |-> "unsupported format: %s", arg |-> tag]

C9_Witness ==
    /\ Returned("EVMTranscodeJSONWithFormat")
    /\ call.format = "BOOL"
    /\ call.arg.Type = TypeTrue
    /\ ret.out = <<>>
    /\ ret.err = [fmt |-> "unsupported format: %s", arg |-> "BOOL"]

\* C10: an object or array is rejected with a FormatError by transcodeBytes,
\* transcodeBool, transcodeUint256 and transcodeInt256; null is rejected by
\* transcodeBytes too, transcodeUint256 and transcodeInt256 map null to the
\* zero word and transcodeBool maps it to word(0).
C10_OtherAndNull ==
    (/\ pc = "returned"
     /\ call.fn \in {"EVMTranscodeBytes", "EVMTranscodeBool",
                     "EVMTranscodeUint256", "EVMTranscodeInt256"})
    => /\ call.arg.Type = TypeJSON
          => /\ IsFormatError(ret)
             /\ ret.err = [fmt |-> "unsupported encoding for value: %s",
                           arg |-> "JSON"]
       /\ call.arg.Type = TypeNull
          => IF call.fn = "EVMTranscodeBytes"
             THEN /\ IsFormatError(ret)
                  /\ ret.err = [fmt |-> "unsupported encoding for value: %s",
                                arg |-> "Null"]
             ELSE ret.err = nil /\ ret.out = WordOf(0)

C10_Witness ==
    /\ Returned("EVMTranscodeBytes")
    /\ call.arg.Type = TypeNull
    /\ IsFormatError(ret)

-----------------------------------------------------------------------------
(* C11: the hex prefix helpers *)

\* C11: hasHexPrefix(s) is true iff s has two characters or more and starts
\* with lowercase "0x" ("0X" is not recognised); removeHexPrefix(s) drops
\* those two characters when hasHexPrefix(s) and returns s otherwise;
\* addHexPrefix(s) returns s when s starts with "0x" or "0X" and "0x" followed
\* by s otherwise, so addHexPrefix is idempotent.
C11_HexPrefix ==
    LET str == call.arg
        lower == Len(str) >= 2 /\ str[1] = "0" /\ str[2] = "x"
        upper == Len(str) >= 2 /\ str[1] = "0" /\ str[2] = "X"
    IN  /\ Returned("HasHexPrefix")
           => /\ ret.out = lower
              /\ upper => ret.out = FALSE
        /\ Returned("RemoveHexPrefix")
           => IF lower
              THEN /\ Len(ret.out) = Len(str) - 2
                   /\ \A i \in 1..Len(ret.out) : ret.out[i] = str[i + 2]
              ELSE ret.out = str
        /\ Returned("AddHexPrefix")
           => /\ IF lower \/ upper
                 THEN ret.out = str
                 ELSE /\ Len(ret.out) = Len(str) + 2
                      /\ ret.out[1] = "0" /\ ret.out[2] = "x"
                      /\ \A i \in 1..Len(str) : ret.out[i + 2] = str[i]
              /\ AddHexPrefix(ret.out) = ret.out

C11_Witness ==
    /\ Returned("AddHexPrefix")
    /\ call.arg = <<"0", "X", "F", "F">>
    /\ ret.out = <<"0", "X", "F", "F">>

-----------------------------------------------------------------------------
(* C12: concurrent callers *)

\* what the call returns when it runs alone, after init()
Alone(fn, arg, target) ==
    CASE fn = "EVMWordSignedBigInt" -> EVMWordSignedBigInt(arg, SpecMaxUint256)
      [] fn = "EVMWordBigInt" -> EVMWordBigInt(arg)
      [] fn = "EVMTranscodeUint256" -> EVMTranscodeUint256(arg, target)
      [] fn = "EVMTranscodeInt256" -> EVMTranscodeInt256(arg, SpecMaxUint256)

\* C12: once the range constants are initialized, under any interleaving of
\* concurrent encode and transcode calls no call changes MaxUint256,
\* MaxInt256 or MinInt256, and every call returns what it returns when it
\* runs alone on the same input.
C12_ConcurrentCalls ==
    /\ [](\A g \in 1..Goroutines :
             threads[g].pc = "done"
             => threads[g].ret = Alone(threads[g].fn, threads[g].arg, arch))
    /\ [][pc # "load"
          => /\ MaxUint256' = MaxUint256
             /\ MaxInt256' = MaxInt256
             /\ MinInt256' = MinInt256]_vars

\* one goroutine is between the two additions of a negative value while
\* another has finished encoding one
C12_Witness ==
    /\ threads[1].pc = "add1"
    /\ threads[2].pc = "done"
    /\ threads[2].fn = "EVMTranscodeInt256"
    /\ threads[2].arg.Str = <<"-", "5">>
    /\ threads[2].ret.err = nil
    /\ threads[2].ret.out = [i \in 1..32 |-> IF i = 32 THEN 251 ELSE 255]

-----------------------------------------------------------------------------
(* C13: the two copies of the word encoders *)

\* the same bytes, or errors of the same kind
SameResult(a, b) ==
    IF a.err = nil
    THEN b.err = nil /\ a.out = b.out
    ELSE b.err # nil /\ a.err.fmt = b.err.fmt

\* C13: the word encoders of utils/ethabi.go and of utils/utils.go are
\* equivalent: the range constants of the two copies are equal after init(),
\* and for every input EVMWordUint64, EVMWordSignedBigInt, EVMWordBigInt and
\* ConcatBytes of the one copy return the same bytes as those of the other,
\* or both return an error of the same kind.
C13_CopiesEquivalent ==
    /\ pc # "load"
       => /\ maxUint257 = utils_init.maxUint257
          /\ MaxUint256 = utils_init.MaxUint256
          /\ MaxInt256 = utils_init.MaxInt256
          /\ MinInt256 = utils_init.MinInt256
    /\ Returned("EVMWordUint64")
       => ret.err = nil /\ ret.out = utils_EVMWordUint64(call.arg)
    /\ Returned("EVMWordSignedBigInt")
       => SameResult(ret, utils_EVMWordSignedBigInt(call.arg))
    /\ Returned("EVMWordBigInt")
       => SameResult(ret, utils_EVMWordBigInt(call.arg))
    /\ Returned("ConcatBytes")
       => SameResult(ret, utils_ConcatBytes(call.arg))

\* both copies encode -(2^255 - 1), the smallest value they accept, as
\* 0x80 00 .. 00 01
C13_Witness ==
    /\ Returned("EVMWordSignedBigInt")
    /\ call.arg = utils_init.MinInt256
    /\ ret.err = nil
    /\ utils_EVMWordSignedBigInt(call.arg).out =
           [i \in 1..32 |-> CASE i = 1 -> 128 [] i = 32 -> 1 [] OTHER -> 0]

-----------------------------------------------------------------------------
(* C14: the length of what EVMTranscodeJSONWithFormat returns *)

\* C14: whenever EVMTranscodeJSONWithFormat returns without an error, for
\* any value and any of the four format tags, the bytes returned are not
\* empty and their number is a multiple of 32: exactly 32 for "uint256",
\* "int256" and "bool", at least 96 for "bytes" and exactly 96 for a boolean
\* or a number.  A number in the bytes format never gives an empty result
\* without an error: the signed encoder accepts every int64, so the branch
\* that returns one is never taken.
C14_OutputLength ==
    /\ ( /\ Returned("EVMTranscodeJSONWithFormat")
         /\ ret.err = nil
         /\ call.format \in {FormatBytes, FormatUint256, FormatInt256,
                             FormatBool} )
       => /\ Len(ret.out) > 0
          /\ Len(ret.out) % EVMWordByteLen = 0
          /\ call.format \in {FormatUint256, FormatInt256, FormatBool}
             => Len(ret.out) = EVMWordByteLen
          /\ call.format = FormatBytes
             => /\ Len(ret.out) >= 3 * EVMWordByteLen
                /\ call.arg.Type \in {TypeFalse, TypeTrue, TypeNumber}
                   => Len(ret.out) = 3 * EVMWordByteLen
    /\ ( /\ Returned("EVMTranscodeJSONWithFormat")
         /\ call.format = FormatBytes
         /\ call.arg.Type = TypeNumber )
       => ret.err = nil /\ ret.out # <<>>
    /\ (Returned("EVMWordSignedBigInt") /\ BitLen(call.arg) <= 64)
       => ret.err = nil /\ Len(ret.out) = EVMWordByteLen

\* the number -6 in the bytes format: offset, length and the word for -6
C14_Witness ==
    /\ Returned("EVMTranscodeJSONWithFormat")
    /\ call.format = FormatBytes
    /\ call.arg.Type = TypeNumber
    /\ call.arg.Num = Float(-6, 1)
    /\ ret.err = nil
    /\ Len(ret.out) = 96
    /\ ret.out[96] = 250

====
